---- MODULE Spec2Model ----
(***************************************************************************)
(* A model of gdrive_to_md.py: the batch that turns Google Drive pointer   *)
(* files (.gdoc, .gsheet) into Markdown and CSV files beside them.         *)
(*                                                                         *)
(* Text is modelled as sequences of one-character (or one-token) strings,  *)
(* so that file names, sanitizing, comment stripping, JSON parsing and the *)
(* regular-expression searches are computed, not assumed.                  *)
(***************************************************************************)
EXTENDS Integers, Sequences, FiniteSets, TLC

VARIABLES
    args,          \* the parsed command line (main, lines 465-479)
    tree,          \* the pointer files under source_dir, in the order os.walk lists them
    links,         \* paths under source_dir that are symbolic links leading outside it
    fs,            \* the files that exist: location -> content
    fs0,           \* the files that existed when the run started
    pc,            \* the position of the program
    run,           \* "first" or "second" invocation of the program
    gdrive_files,  \* main's list of files to process
    i,             \* main's loop index (1-based)
    counts,        \* success_count, skip_count, error_count, gdocs_processed, gsheets_processed
    job,           \* the locals of process_gdoc_file / process_gsheet_file
    exit_code,     \* the status the process ended with, or "none"
    exports,       \* how many times the Drive export was invoked in this run
    probes,        \* how many times `pandoc --version` was executed in this run
    outcomes,      \* per processed item of this run: "succeeded", "skipped" or "failed"
    prev,          \* what the first run left: its outcomes and files
    san,           \* harness of sanitize_filename: its input and result
    rsv            \* harness of get_gdrive_info: its input, stage and result

vars == <<args, tree, links, fs, fs0, pc, run, gdrive_files, i, counts, job,
          exit_code, exports, probes, outcomes, prev, san, rsv>>

None == "None"

(***************************************************************************)
(* Characters.  A file name is a sequence of characters; each character is *)
(* a string.  "TAB" stands for a control character, "e'" for a two-byte    *)
(* letter (such as U+00E9).                                                *)
(***************************************************************************)
Letters == {"a", "b", "c", "d", "e", "g", "h", "m", "o", "s", "t", "v", "x", "e'"}

Digits == {"1"}

Reserved == {"<", ">", ":", "QUOTE", "/", "BACKSLASH", "|", "?", "*"}

NonPrintable == {"TAB"}

\* str.isalnum()
IsAlnum(c) == c \in Letters \cup Digits

\* str.isprintable()
IsPrintable(c) == c \notin NonPrintable

\* len(c.encode('utf-8'))
ByteLen(c) == IF c = "e'" THEN 2 ELSE 1

\* len(s.encode('utf-8')): the one-byte characters plus twice the two-byte ones
ByteLenOf(s) ==
    Cardinality({k \in 1..Len(s) : ByteLen(s[k]) = 1})
        + 2 * Cardinality({k \in 1..Len(s) : ByteLen(s[k]) = 2})

\* str.endswith
EndsWith(s, suffix) ==
    /\ Len(s) >= Len(suffix)
    /\ SubSeq(s, Len(s) - Len(suffix) + 1, Len(s)) = suffix

GDOC == <<".", "g", "d", "o", "c">>

GSHEET == <<".", "g", "s", "h", "e", "e", "t">>

MD == <<".", "m", "d">>

CSV == <<".", "c", "s", "v">>

DOCX == <<".", "d", "o", "c", "x">>

\* the index of the last "." of s, or 0
LastDot(s) ==
    LET dots == {k \in 1..Len(s) : s[k] = "."}
    IN  IF dots = {} THEN 0 ELSE CHOOSE k \in dots : \A j \in dots : j <= k

\* os.path.splitext on a base name: leading dots are not an extension
SplitExtRoot(s) ==
    LET d == LastDot(s)
    IN  IF d > 0 /\ \E k \in 1..(d - 1) : s[k] # "."
        THEN SubSeq(s, 1, d - 1)
        ELSE s

\* sanitize_filename
sanitize_filename(filename) ==
    SelectSeq(filename, LAMBDA c : IsAlnum(c) \/ c \in {".", "_", "-", " "})

(***************************************************************************)
(* Pointer-file content.  A content is a sequence of lines (split at       *)
(* '\n'), a line a sequence of tokens: the punctuation of JSON, "Q" for    *)
(* the double quote, "SP" for a blank, "//", "http:", "https:", "id=",     *)
(* "&", and words.  "NL" is the line break of the joined text.             *)
(***************************************************************************)
Blank == {"SP", "NL"}

At(s, k) == IF k \in 1..Len(s) THEN s[k] ELSE "EOF"

\* str.strip() as far as startswith needs it: the leading blanks removed
RECURSIVE LStrip(_)
LStrip(line) ==
    IF line # <<>> /\ Head(line) \in Blank THEN LStrip(Tail(line)) ELSE line

\* 'http://' in line or 'https://' in line
HasUrl(line) ==
    \E k \in 1..(Len(line) - 1) : line[k] \in {"http:", "https:"} /\ line[k + 1] = "//"

\* line.split('//')[0]
BeforeComment(line) ==
    LET at == {k \in 1..Len(line) : line[k] = "//"}
    IN  IF at = {} THEN line
        ELSE SubSeq(line, 1, (CHOOSE k \in at : \A j \in at : k <= j) - 1)

RECURSIVE MapLines(_)
MapLines(lines) ==
    IF lines = <<>> THEN <<>>
    ELSE <<IF HasUrl(Head(lines)) THEN Head(lines) ELSE BeforeComment(Head(lines))>>
         \o MapLines(Tail(lines))

\* _clean_file_content: comment lines dropped, inline comments cut unless the line holds a URL
clean_file_content(content) ==
    MapLines(SelectSeq(content, LAMBDA line : At(LStrip(line), 1) # "//"))

\* '\n'.join(lines)
RECURSIVE Join(_)
Join(lines) ==
    IF lines = <<>> THEN <<>>
    ELSE IF Len(lines) = 1 THEN Head(lines)
    ELSE Head(lines) \o <<"NL">> \o Join(Tail(lines))

(***************************************************************************)
(* json.loads on the token text.  A value is                               *)
(*   [t |-> "str", v |-> tokens], [t |-> "dict", keys, val],               *)
(*   [t |-> "list", v |-> values] or [t |-> "none"] (Python's None).       *)
(* A parse step returns [ok, v, nxt]: success, the value, the next index.  *)
(***************************************************************************)
PyNone == [t |-> "none"]

PyStr(v) == [t |-> "str", v |-> v]

ParseFail == [ok |-> FALSE, v |-> PyNone, nxt |-> 0]

RECURSIVE SkipWs(_, _)
SkipWs(s, k) == IF At(s, k) \in Blank THEN SkipWs(s, k + 1) ELSE k

\* a JSON string starting at the quote s[k]: up to the next quote, no line break inside
ParseString(s, k) ==
    LET close == {j \in (k + 1)..Len(s) : s[j] = "Q"}
    IN  IF At(s, k) # "Q" \/ close = {} THEN ParseFail
        ELSE LET j == CHOOSE c \in close : \A d \in close : c <= d
                 body == SubSeq(s, k + 1, j - 1)
             IN  IF \E n \in 1..Len(body) : body[n] = "NL" THEN ParseFail
                 ELSE [ok |-> TRUE, v |-> PyStr(body), nxt |-> j + 1]

\* dict[key] = value (a repeated key keeps the last value)
DictPut(d, key, value) ==
    [t |-> "dict", keys |-> d.keys \cup {key},
     val |-> [q \in d.keys \cup {key} |-> IF q = key THEN value ELSE d.val[q]]]

EmptyDict == [t |-> "dict", keys |-> {}, val |-> [q \in {} |-> PyNone]]

RECURSIVE ParseValue(_, _), ParseMembers(_, _, _), MembersAfterKey(_, _, _),
          MembersAfterValue(_, _, _, _), MembersEnd(_, _, _),
          ParseElems(_, _, _), ElemsAfterValue(_, _, _), ElemsEnd(_, _, _)
ParseValue(s, k) ==
    CASE At(s, k) = "Q" -> ParseString(s, k)
      [] At(s, k) = "{" ->
            IF At(s, SkipWs(s, k + 1)) = "}"
            THEN [ok |-> TRUE, v |-> EmptyDict, nxt |-> SkipWs(s, k + 1) + 1]
            ELSE ParseMembers(s, SkipWs(s, k + 1), EmptyDict)
      [] At(s, k) = "[" ->
            IF At(s, SkipWs(s, k + 1)) = "]"
            THEN [ok |-> TRUE, v |-> [t |-> "list", v |-> <<>>], nxt |-> SkipWs(s, k + 1) + 1]
            ELSE ParseElems(s, SkipWs(s, k + 1), <<>>)
      [] OTHER -> ParseFail

\* the members of an object from the key at s[k] on, to the closing brace
ParseMembers(s, k, acc) == MembersAfterKey(s, ParseString(s, k), acc)

\* after the key: blanks, the colon, blanks, the value
MembersAfterKey(s, key, acc) ==
    IF ~key.ok \/ At(s, SkipWs(s, key.nxt)) # ":" THEN ParseFail
    ELSE MembersAfterValue(s, key.v.v, ParseValue(s, SkipWs(s, SkipWs(s, key.nxt) + 1)), acc)

MembersAfterValue(s, key, val, acc) ==
    IF ~val.ok THEN ParseFail
    ELSE MembersEnd(s, SkipWs(s, val.nxt), DictPut(acc, key, val.v))

\* after a member: the closing brace, or a comma and the next member
MembersEnd(s, e, d) ==
    IF At(s, e) = "}" THEN [ok |-> TRUE, v |-> d, nxt |-> e + 1]
    ELSE IF At(s, e) = "," THEN ParseMembers(s, SkipWs(s, e + 1), d)
    ELSE ParseFail

\* the elements of an array from s[k] on, to the closing bracket
ParseElems(s, k, acc) == ElemsAfterValue(s, ParseValue(s, k), acc)

ElemsAfterValue(s, val, acc) ==
    IF ~val.ok THEN ParseFail
    ELSE ElemsEnd(s, SkipWs(s, val.nxt), Append(acc, val.v))

ElemsEnd(s, e, acc) ==
    IF At(s, e) = "]" THEN [ok |-> TRUE, v |-> [t |-> "list", v |-> acc], nxt |-> e + 1]
    ELSE IF At(s, e) = "," THEN ParseElems(s, SkipWs(s, e + 1), acc)
    ELSE ParseFail

\* one value, blanks around it, nothing after it
WholeText(s, val) ==
    IF val.ok /\ SkipWs(s, val.nxt) = Len(s) + 1 THEN val ELSE ParseFail

\* json.loads
json_loads(s) == WholeText(s, ParseValue(s, SkipWs(s, 1)))

(***************************************************************************)
(* The regular-expression searches of _extract_document_info.              *)
(***************************************************************************)
\* the longest run of tokens from s[k] on that are not in `stop`
RECURSIVE RunEnd(_, _, _)
RunEnd(s, k, stop) ==
    IF k <= Len(s) /\ s[k] \notin stop THEN RunEnd(s, k + 1, stop) ELSE k

\* re.search(r'"key"\s*:\s*"([^"]+)"', s): the group of the leftmost match, or no match
SearchKeyValue(s, key) ==
    LET Group(k) ==
            LET c == SkipWs(s, k + 3)
                q == SkipWs(s, c + 1)
                e == RunEnd(s, q + 1, {"Q"})
            IN  IF /\ At(s, k) = "Q" /\ At(s, k + 1) = key /\ At(s, k + 2) = "Q"
                   /\ At(s, c) = ":" /\ At(s, q) = "Q"
                   /\ e > q + 1 /\ At(s, e) = "Q"
                THEN [ok |-> TRUE, v |-> SubSeq(s, q + 1, e - 1)]
                ELSE [ok |-> FALSE, v |-> <<>>]
        hits == {k \in 1..Len(s) : Group(k).ok}
    IN  IF hits = {} THEN [ok |-> FALSE, v |-> <<>>]
        ELSE Group(CHOOSE k \in hits : \A j \in hits : k <= j)

\* re.search(r'id=([^"&\s]+)', s): the group of the leftmost match, or no match
SearchIdParam(s) ==
    LET stop == {"Q", "&", "SP", "NL"}
        hits == {k \in 1..Len(s) : s[k] = "id=" /\ RunEnd(s, k + 1, stop) > k + 1}
    IN  IF hits = {} THEN [ok |-> FALSE, v |-> <<>>]
        ELSE LET k == CHOOSE h \in hits : \A j \in hits : h <= j
             IN  [ok |-> TRUE, v |-> SubSeq(s, k + 1, RunEnd(s, k + 1, stop) - 1)]

\* f"https://docs.google.com/document/d/{doc_id}/edit"
DocUrl(doc_id) == <<"https:", "//", "docs.google.com/document/d/">> \o doc_id \o <<"/edit">>

RegexDict(doc_id, url) ==
    DictPut(DictPut(EmptyDict, <<"doc_id">>, PyStr(doc_id)), <<"url">>, PyStr(url))

\* lines 150-157: the dictionary made from the "doc_id" and "url" matches
FromKeyValue(m, u) == [ok |-> TRUE, v |-> RegexDict(m.v, IF u.ok THEN u.v ELSE <<>>)]

\* lines 160-172: the dictionary made from the id= match, or the raised exception
FromIdParam(alt) ==
    IF alt.ok THEN [ok |-> TRUE, v |-> RegexDict(alt.v, DocUrl(alt.v))]
    ELSE [ok |-> FALSE, v |-> PyNone]

\* lines 132-172, given the result of json.loads and of the "doc_id" search
ExtractFrom(content, parsed, m) ==
    IF parsed.ok THEN [ok |-> TRUE, v |-> parsed.v]
    ELSE IF m.ok THEN FromKeyValue(m, SearchKeyValue(content, "url"))
    ELSE FromIdParam(SearchIdParam(content))

\* _extract_document_info: [ok |-> FALSE] stands for the raised exception
extract_document_info(content) ==
    ExtractFrom(content, json_loads(content), SearchKeyValue(content, "doc_id"))

\* Python's truth value of a parsed value
Truthy(x) ==
    CASE x.t = "none" -> FALSE
      [] x.t = "str" -> x.v # <<>>
      [] x.t = "list" -> x.v # <<>>
      [] x.t = "dict" -> x.keys # {}

\* dict.get(key, default)
DictGet(d, key, default) == IF key \in d.keys THEN d.val[key] ELSE default

\* a mutant of FileType: the extension is not looked at
FileTypeAlwaysDocument(name) == "document"

\* the 'type' of get_gdrive_info, from the extension of the path
FileType(name) ==
    IF EndsWith(name, GDOC) THEN "document"
    ELSE IF EndsWith(name, GSHEET) THEN "spreadsheet"
    ELSE ""

NoInfo == [ok |-> FALSE, id |-> PyNone, url |-> PyNone, name |-> <<>>, type |-> ""]

\* get_gdrive_info, lines 207-212: 'doc_id', else 'resourceid'
DocIdOf(d) ==
    IF ~Truthy(DictGet(d, <<"doc_id">>, PyNone)) /\ <<"resourceid">> \in d.keys
    THEN d.val[<<"resourceid">>]
    ELSE DictGet(d, <<"doc_id">>, PyNone)

\* get_gdrive_info, lines 207-236, given what _extract_document_info returned or raised
InfoFrom(name, file_content) ==
    IF ~file_content.ok \/ file_content.v.t # "dict" THEN NoInfo
    ELSE [ok |-> TRUE, id |-> DocIdOf(file_content.v),
          url |-> DictGet(file_content.v, <<"url">>, PyStr(<<>>)),
          name |-> SplitExtRoot(name), type |-> FileType(name)]

\* get_gdrive_info on a file named `name` holding `content`:
\* [ok |-> FALSE] stands for the returned None
get_gdrive_info(name, content) ==
    InfoFrom(name, extract_document_info(Join(clean_file_content(content))))

(***************************************************************************)
(* The file system.  A path is [dir, name]: the directories below          *)
(* source_dir and the base name (<<>> for the directory itself).  A        *)
(* location is a path with its area: "root" (under source_dir), "tmp" (the *)
(* scoped temporary directory) or "outside" (reached through a symbolic    *)
(* link that leaves source_dir).  fs maps the locations that exist to what *)
(* they hold.                                                              *)
(***************************************************************************)
Path(dir, name) == [dir |-> dir, name |-> name]

IsPrefix(p, q) == Len(p) <= Len(q) /\ SubSeq(q, 1, Len(p)) = p

\* where the operating system finds `path`: links are followed
Loc(path) ==
    IF path \in links \/ \E l \in links : l.name = <<>> /\ IsPrefix(l.dir, path.dir)
    THEN [area |-> "outside", dir |-> path.dir, name |-> path.name]
    ELSE [area |-> "root", dir |-> path.dir, name |-> path.name]

TmpLoc(name) == [area |-> "tmp", dir |-> <<"tmp">>, name |-> name]

NoHeader == [state |-> "none", title |-> <<>>, source_doc_id |-> PyNone,
             docx_path |-> [present |-> FALSE, dir |-> <<>>, name |-> <<>>]]

File(kind, src, data, hdr) == [kind |-> kind, src |-> src, data |-> data, hdr |-> hdr]

UserFile == File("user", PyNone, "full", NoHeader)

Directory == File("dir", PyNone, "full", NoHeader)

\* os.path.exists
Exists(f, loc) == loc \in DOMAIN f

Put(f, loc, content) ==
    [l \in DOMAIN f \cup {loc} |-> IF l = loc THEN content ELSE f[l]]

\* leaving `with tempfile.TemporaryDirectory()`: the directory and all in it are removed
RemoveTmp(f) == [l \in {m \in DOMAIN f : m.area # "tmp"} |-> f[l]]

(***************************************************************************)
(* Discovery and the output paths.                                         *)
(***************************************************************************)
IsPointer(name) == EndsWith(name, GDOC) \/ EndsWith(name, GSHEET)

\* a mutant of find_gdrive_files: the kind filters are ignored
FindIgnoringFilters(files, gdoc_only, gsheet_only) ==
    SelectSeq(files, LAMBDA f : IsPointer(f.name))

\* find_gdrive_files over the files of the tree, in os.walk order
find_gdrive_files(files, gdoc_only, gsheet_only) ==
    SelectSeq(files, LAMBDA f :
        /\ \/ ~gdoc_only /\ ~gsheet_only
           \/ gdoc_only /\ EndsWith(f.name, GDOC)
           \/ gsheet_only /\ EndsWith(f.name, GSHEET)
        /\ IsPointer(f.name))

\* args.limit when no --limit is given (None in the program)
NoLimit == -1

\* main, lines 521-526: `args.limit and 0 < args.limit < len(gdrive_files)`; None and 0
\* are both false
ApplyLimit(files, limit) ==
    IF limit # NoLimit /\ limit # 0 /\ 0 < limit /\ limit < Len(files)
    THEN SubSeq(files, 1, limit)
    ELSE files

\* a mutant of main_output_path: the display name is not sanitized
MainOutputUnsanitized(file, info) ==
    Path(file.dir, info.name \o (IF EndsWith(file.name, GDOC) THEN MD ELSE CSV))

\* main, lines 547-550: the path tested under --skip-existing
main_output_path(file, info) ==
    Path(file.dir, sanitize_filename(info.name)
                   \o (IF EndsWith(file.name, GDOC) THEN MD ELSE CSV))

\* a mutant of md_filename: the display name is not sanitized
MdFilenameUnsanitized(file, info) == Path(file.dir, info.name \o MD)

\* process_gdoc_file, lines 364-368
md_filename(file, info) == Path(file.dir, sanitize_filename(info.name) \o MD)

\* process_gsheet_file, lines 435-439
csv_filename(file, info) == Path(file.dir, sanitize_filename(info.name) \o CSV)

\* process_gdoc_file, lines 380 and 382
intermediates_dir(file) == Path(file.dir \o <<"intermediates">>, <<>>)

final_docx_path(file, info) ==
    Path(file.dir \o <<"intermediates">>, sanitize_filename(info.name) \o DOCX)

(***************************************************************************)
(* The inputs of a run: the command line, the pointer files of the tree    *)
(* and the files already there.                                            *)
(***************************************************************************)
\* the most pointer files a tree holds
MaxFiles == 2

LineDocId == <<"{", "Q", "doc_id", "Q", ":", "SP", "Q", "abc", "Q", "}">>

LineResourceId == <<"{", "Q", "resourceid", "Q", ":", "Q", "xyz", "Q", "}">>

LineUrlOnly ==
    <<"{", "Q", "url", "Q", ":", "Q", "https:", "//", "h/open?", "id=", "abc", "Q", "}">>

LineNoise == <<"x">>

LineComment == <<"//", "SP", "id=", "zzz">>

LineKeyValue == <<"Q", "doc_id", "Q", ":", "Q", "abc", "Q", "SP", "//", "x">>

LineIdParam == <<"open?", "id=", "abc", "&", "x">>

LineEmptyId == <<"{", "Q", "doc_id", "Q", ":", "Q", "Q", "}">>

LineSlashId == <<"{", "Q", "doc_id", "Q", ":", "Q", "a", "//", "b", "Q", "}">>

LineUrlComment ==
    <<"{", "Q", "doc_id", "Q", ":", "Q", "abc", "Q", ",", "Q", "url", "Q", ":",
      "Q", "http:", "//", "h", "Q", "}", "SP", "//", "x">>

LineString == <<"Q", "id=", "abc", "Q">>

\* a content that names a document, whatever the file it is found in
LineDocumentUrl ==
    <<"{", "Q", "doc_id", "Q", ":", "Q", "abc", "Q", ",", "Q", "url", "Q", ":",
      "Q", "https:", "//", "docs.google.com/document/d/abc/edit", "Q", "}">>

Lines ==
    {LineDocId, LineResourceId, LineUrlOnly, LineNoise, LineComment, LineKeyValue,
     LineIdParam, LineEmptyId, LineSlashId, LineUrlComment, LineString, LineDocumentUrl}

NameAGdoc == <<"a">> \o GDOC

NameAQGdoc == <<"a", "?">> \o GDOC

NameAGsheet == <<"a">> \o GSHEET

NameBGdoc == <<"b">> \o GDOC

NameBGsheet == <<"b">> \o GSHEET

PointerFile(dir, name, content) == [dir |-> dir, name |-> name, content |-> content]

\* the candidate pointer files of the tree
Walk ==
    << PointerFile(<<>>, NameAGdoc, <<LineDocId>>),
       PointerFile(<<>>, NameAQGdoc, <<LineResourceId>>),
       PointerFile(<<>>, NameAGsheet, <<LineDocId>>),
       PointerFile(<<"sub">>, NameBGdoc, <<LineNoise>>),
       PointerFile(<<"sub">>, NameBGsheet, <<LineUrlOnly>>) >>

\* the orders in which os.walk may list the files S: top-down, the files of
\* the root before those of its subdirectory, and the files of one directory
\* in whatever order the file system returns them
WalkOrders(S) ==
    {s \in [1..Cardinality(S) -> S] :
        /\ \A j, k \in DOMAIN s : j # k => s[j] # s[k]
        /\ \A j, k \in DOMAIN s : j < k => ~(s[j].dir # <<>> /\ s[k].dir = <<>>)}

\* pointer files of either extension, with a reserved character in the name and
\* with nothing or only dots before the extension, holding any one line of Lines
KindFiles ==
    {PointerFile(<<>>, name, <<line>>) :
        name \in {NameAGdoc, NameAGsheet, NameAQGdoc, GDOC, <<".">> \o GDOC, GSHEET},
        line \in Lines}

\* what get_gdrive_info returns for each pointer file: the pointer files are only
\* read, so it is the same at every call of a run
InfoOf ==
    [f \in {Walk[k] : k \in 1..Len(Walk)} \cup KindFiles |->
        get_gdrive_info(f.name, f.content)]

Trees ==
    UNION {WalkOrders(S) : S \in {T \in SUBSET {Walk[k] : k \in 1..Len(Walk)} :
                                        Cardinality(T) <= MaxFiles}}

\* the directories of the tree
BaseDirs == [l \in {[area |-> "root", dir |-> <<>>, name |-> <<>>],
                    [area |-> "root", dir |-> <<"sub">>, name |-> <<>>]} |-> Directory]

\* files a user (or an earlier run) left at the would-be output paths
OldOutputs ==
    [l \in {[area |-> "root", dir |-> <<>>, name |-> <<"a">> \o MD],
            [area |-> "root", dir |-> <<>>, name |-> <<"a">> \o CSV],
            [area |-> "root", dir |-> <<"sub">>, name |-> <<"b">> \o CSV]} |-> UserFile]

\* the files authenticate opens in the working directory
TokenPickle == <<"t", "o", "k", "e", "n", ".", "p", "i", "c", "k", "l", "e">>

CredentialsJson ==
    <<"c", "r", "e", "d", "e", "n", "t", "i", "a", "l", "s", ".", "j", "s", "o", "n">>

\* the directories of the tree the program may be started in
WorkDirs == {l.dir : l \in DOMAIN BaseDirs}

\* the OAuth client file of a user who runs the program in the directory `dir`
\* of the tree
Credentials(dir) ==
    [l \in {[area |-> "root", dir |-> dir, name |-> CredentialsJson]} |-> UserFile]

Merge(f, g) == [l \in DOMAIN f \cup DOMAIN g |-> IF l \in DOMAIN g THEN g[l] ELSE f[l]]

ArgSets ==
    [dry_run : BOOLEAN, skip_existing : BOOLEAN, keep_intermediates : BOOLEAN,
     gdoc_only : BOOLEAN, gsheet_only : BOOLEAN, limit : {NoLimit} \cup 0..MaxFiles]

ZeroCounts ==
    [success_count |-> 0, skip_count |-> 0, error_count |-> 0,
     gdocs_processed |-> 0, gsheets_processed |-> 0]

NoLoc == [area |-> "none", dir |-> <<>>, name |-> <<>>]

JobIdle ==
    [file |-> PointerFile(<<>>, <<>>, <<>>), id |-> PyNone, name |-> <<>>,
     out |-> Path(<<>>, <<>>), dest |-> NoLoc, kept |-> FALSE,
     content |-> UserFile, exported |-> FALSE, converted |-> FALSE,
     annotated |-> "none", result |-> "none"]

SanIdle == [stage |-> "idle", name |-> <<>>, ext |-> <<>>, out |-> <<>>]

RsvIdle == [stage |-> "idle", name |-> <<>>, content |-> <<>>, clean |-> <<>>,
            info |-> get_gdrive_info(<<>>, <<>>)]

NoPrev == [outcomes |-> <<>>, files |-> <<>>, fs |-> BaseDirs]

\* the variables of a run, which the harnesses of single functions leave alone
idle == <<args, tree, links, fs, fs0, pc, run, gdrive_files, i, counts, job,
          exit_code, exports, probes, outcomes, prev>>

\* the values of the run's variables while no run is going on
InitIdle ==
    /\ args = [dry_run |-> FALSE, skip_existing |-> FALSE, keep_intermediates |-> FALSE,
               gdoc_only |-> FALSE, gsheet_only |-> FALSE, limit |-> NoLimit]
    /\ tree = <<>>
    /\ links = {}
    /\ fs = BaseDirs
    /\ fs0 = fs
    /\ run = "first"
    /\ gdrive_files = <<>>
    /\ i = 1
    /\ counts = ZeroCounts
    /\ job = JobIdle
    /\ exit_code = "none"
    /\ exports = 0
    /\ probes = 0
    /\ outcomes = <<>>
    /\ prev = NoPrev

InitRun ==
    /\ pc = "start"
    /\ run = "first"
    /\ gdrive_files = <<>>
    /\ i = 1
    /\ counts = ZeroCounts
    /\ job = JobIdle
    /\ exit_code = "none"
    /\ exports = 0
    /\ probes = 0
    /\ outcomes = <<>>
    /\ prev = NoPrev
    /\ san = SanIdle
    /\ rsv = RsvIdle

\* the command lines, trees and earlier files a run is started with
RunInputs ==
    {[args |-> a, tree |-> t, fs |-> f] :
        a \in ArgSets, t \in Trees,
        f \in {BaseDirs, Merge(BaseDirs, OldOutputs)}
                 \cup {Merge(BaseDirs, Credentials(d)) : d \in WorkDirs}}

Init ==
    /\ \E inp \in RunInputs : args = inp.args /\ tree = inp.tree /\ fs = inp.fs
    /\ links = {}
    /\ fs0 = fs
    /\ InitRun

(***************************************************************************)
(* main: the set-up, lines 483-526.                                        *)
(***************************************************************************)
fixed == <<args, tree, links, fs0, run, prev, san, rsv>>

Exit(code) == pc' = "exited" /\ exit_code' = code

\* lines 483-486: the source directory must exist
CheckSourceDir ==
    /\ pc = "start"
    /\ \E is_dir \in BOOLEAN :
          IF is_dir THEN pc' = "pandoc" /\ exit_code' = exit_code ELSE Exit("1")
    /\ UNCHANGED <<fixed, fs, gdrive_files, i, counts, job, exports, probes, outcomes>>

\* lines 488-496: pandoc is probed unless --gsheet-only
CheckPandoc ==
    /\ pc = "pandoc"
    /\ IF args.gsheet_only
       THEN pc' = "auth" /\ UNCHANGED <<exit_code, probes>>
       ELSE /\ probes' = probes + 1
            /\ \E ok \in BOOLEAN :
                  IF ok THEN pc' = "auth" /\ exit_code' = exit_code ELSE Exit("1")
    /\ UNCHANGED <<fixed, fs, gdrive_files, i, counts, job, exports, outcomes>>

\* token.pickle holding nothing ("empty"), part of the pickled credentials
\* ("partial") or all of them ("full")
Token(data) == File("token", PyNone, data, NoHeader)

\* authenticate, lines 55-82, run with the directory `cwd` of the tree as the
\* working directory: the credentials come from a valid token.pickle ("valid"),
\* from a refresh of an expired one ("refreshed") or from the consent flow, which
\* needs credentials.json ("flow"). After a refresh or a flow token.pickle is
\* opened for writing, which creates or empties it, and the credentials are
\* pickled into it: `written` is how much of them reached the file when
\* pickle.dump or the write failed ("empty", "partial"), or "full". "error" is
\* every way to fail before line 79 (credentials.json missing, the token
\* unreadable, the refresh or the flow failing, token.pickle not writable).
authenticate(f, cwd, creds, written) ==
    IF creds \in {"refreshed", "flow"}
    THEN Put(f, Loc(Path(cwd, TokenPickle)), Token(written))
    ELSE f

\* lines 60-62: a token.pickle that exists is loaded, and one that is not whole
\* cannot be;
\* line 69: the flow needs credentials.json
CanAuthenticate(f, cwd, creds) ==
    LET token == Loc(Path(cwd, TokenPickle))
    IN  /\ creds \in {"valid", "refreshed"} => Exists(f, token)
        /\ creds = "flow" => Exists(f, Loc(Path(cwd, CredentialsJson)))
        /\ (Exists(f, token) /\ f[token].data # "full") => creds = "error"

\* lines 498-511: authentication, skipped in a dry run, and build(). The working
\* directory is a directory of the tree (in_tree) or one outside it, whose files
\* are not part of fs
Authenticate ==
    /\ pc = "auth"
    /\ IF args.dry_run
       THEN pc' = "find" /\ UNCHANGED <<exit_code, fs>>
       ELSE \E in_tree, built \in BOOLEAN, cwd \in WorkDirs,
               creds \in {"valid", "refreshed", "flow", "error"},
               written \in {"empty", "partial", "full"} :
               /\ in_tree => CanAuthenticate(fs, cwd, creds)
               /\ fs' = IF in_tree THEN authenticate(fs, cwd, creds, written) ELSE fs
               /\ IF /\ creds # "error"
                     /\ creds \in {"refreshed", "flow"} => written = "full"
                     /\ built
                  THEN pc' = "find" /\ exit_code' = exit_code
                  ELSE Exit("1")
    /\ UNCHANGED <<fixed, gdrive_files, i, counts, job, exports, probes, outcomes>>

\* a mutant of FindFiles: finding nothing is an error
FindFilesNothingIsError ==
    /\ pc = "find"
    /\ LET found == find_gdrive_files(tree, args.gdoc_only, args.gsheet_only)
       IN  IF found = <<>>
           THEN Exit("1") /\ UNCHANGED gdrive_files
           ELSE /\ gdrive_files' = ApplyLimit(found, args.limit)
                /\ pc' = "loop"
                /\ exit_code' = exit_code
    /\ i' = 1
    /\ counts' = ZeroCounts
    /\ UNCHANGED <<fixed, fs, job, exports, probes, outcomes>>

\* lines 513-533: discovery, the exit when nothing is found, the cap, the counters
FindFiles ==
    /\ pc = "find"
    /\ LET found == find_gdrive_files(tree, args.gdoc_only, args.gsheet_only)
       IN  IF found = <<>>
           THEN Exit("0") /\ UNCHANGED gdrive_files
           ELSE /\ gdrive_files' = ApplyLimit(found, args.limit)
                /\ pc' = "loop"
                /\ exit_code' = exit_code
    /\ i' = 1
    /\ counts' = ZeroCounts
    /\ UNCHANGED <<fixed, fs, job, exports, probes, outcomes>>

(***************************************************************************)
(* main: the loop, lines 535-576.                                          *)
(***************************************************************************)
\* a mutant of Counted: a skipped item is also counted as failed
CountedSkipAlsoFails(c, outcome, name) ==
    CASE outcome = "skipped" -> [c EXCEPT !.skip_count = @ + 1, !.error_count = @ + 1]
      [] outcome = "failed" -> [c EXCEPT !.error_count = @ + 1]
      [] outcome = "succeeded" ->
            [c EXCEPT !.success_count = @ + 1,
                      !.gdocs_processed = IF EndsWith(name, GDOC) THEN @ + 1 ELSE @,
                      !.gsheets_processed =
                          IF ~EndsWith(name, GDOC) /\ EndsWith(name, GSHEET) THEN @ + 1 ELSE @]

\* the counters after an item ended as `outcome`
Counted(c, outcome, name) ==
    CASE outcome = "skipped" -> [c EXCEPT !.skip_count = @ + 1]
      [] outcome = "failed" -> [c EXCEPT !.error_count = @ + 1]
      [] outcome = "succeeded" ->
            [c EXCEPT !.success_count = @ + 1,
                      !.gdocs_processed = IF EndsWith(name, GDOC) THEN @ + 1 ELSE @,
                      !.gsheets_processed =
                          IF ~EndsWith(name, GDOC) /\ EndsWith(name, GSHEET) THEN @ + 1 ELSE @]

NextItem(outcome) ==
    /\ counts' = Counted(counts, outcome, gdrive_files[i].name)
    /\ outcomes' = Append(outcomes, outcome)
    /\ i' = i + 1
    /\ pc' = "loop"

\* lines 542-556, given the file and what get_gdrive_info returned for it
MainItemWith(file, file_info) ==
    IF ~file_info.ok
    THEN NextItem("failed") /\ job' = job
    ELSE IF args.skip_existing /\ Exists(fs, Loc(main_output_path(file, file_info)))
    THEN NextItem("skipped") /\ job' = job
    ELSE /\ pc' = "process"
         /\ job' = [JobIdle EXCEPT !.file = file]
         /\ UNCHANGED <<counts, outcomes, i>>

\* lines 535-556: the item's info, the would-be output path, the skip
MainItem ==
    /\ pc = "loop"
    /\ i <= Len(gdrive_files)
    /\ MainItemWith(gdrive_files[i], InfoOf[gdrive_files[i]])
    /\ UNCHANGED <<fixed, fs, gdrive_files, exit_code, exports, probes>>

Return(result) == pc' = "returned" /\ job' = [job EXCEPT !.result = result]

\* the locals of process_gdoc_file / process_gsheet_file once the info is accepted
Started(info, out) == [job EXCEPT !.id = info.id, !.name = info.name, !.out = out]

\* lines 377-382 and 398: the intermediates directory, or the temporary directory
PrepareDocx(file, gdoc_info, started) ==
    \E made \in BOOLEAN :
       IF ~made
       THEN pc' = "returned" /\ job' = [started EXCEPT !.result = "raised"] /\ fs' = fs
       ELSE IF args.keep_intermediates
       THEN /\ fs' = IF Exists(fs, Loc(intermediates_dir(file))) THEN fs
                     ELSE Put(fs, Loc(intermediates_dir(file)), Directory)
            /\ job' = [started EXCEPT !.dest = Loc(final_docx_path(file, gdoc_info)),
                                      !.kept = TRUE]
            /\ pc' = "export"
       ELSE /\ fs' = Put(fs, TmpLoc(<<>>), Directory)
            /\ job' = [started EXCEPT
                         !.dest = TmpLoc(sanitize_filename(gdoc_info.name) \o DOCX)]
            /\ pc' = "export"

\* a mutant of ProcessGdocWith: the dry-run return is missing
ProcessGdocNoDryRun(file, gdoc_info) ==
    IF ~gdoc_info.ok \/ ~Truthy(gdoc_info.id) \/ gdoc_info.type # "document"
    THEN Return("False") /\ fs' = fs
    ELSE PrepareDocx(file, gdoc_info, Started(gdoc_info, md_filename(file, gdoc_info)))

\* lines 357-382, given what get_gdrive_info returned
ProcessGdocWith(file, gdoc_info) ==
    IF ~gdoc_info.ok \/ ~Truthy(gdoc_info.id) \/ gdoc_info.type # "document"
    THEN Return("False") /\ fs' = fs
    ELSE IF args.dry_run
    THEN /\ pc' = "returned"
         /\ job' = [Started(gdoc_info, md_filename(file, gdoc_info)) EXCEPT !.result = "True"]
         /\ fs' = fs
    ELSE PrepareDocx(file, gdoc_info, Started(gdoc_info, md_filename(file, gdoc_info)))

\* process_gdoc_file, lines 354-382 (and the entry of the temporary directory, line 398)
ProcessGdoc ==
    /\ pc = "process"
    /\ EndsWith(job.file.name, GDOC)
    /\ ProcessGdocWith(job.file, InfoOf[job.file])
    /\ UNCHANGED <<fixed, gdrive_files, i, counts, exit_code, exports, probes, outcomes>>

\* lines 428-446, given what get_gdrive_info returned
ProcessGsheetWith(file, gsheet_info) ==
    IF ~gsheet_info.ok \/ ~Truthy(gsheet_info.id) \/ gsheet_info.type # "spreadsheet"
    THEN Return("False")
    ELSE IF args.dry_run
    THEN /\ pc' = "returned"
         /\ job' = [Started(gsheet_info, csv_filename(file, gsheet_info))
                       EXCEPT !.result = "True"]
    ELSE /\ pc' = "export"
         /\ job' = [Started(gsheet_info, csv_filename(file, gsheet_info))
                       EXCEPT !.dest = Loc(csv_filename(file, gsheet_info))]

\* process_gsheet_file, lines 425-446
ProcessGsheet ==
    /\ pc = "process"
    /\ ~EndsWith(job.file.name, GDOC)
    /\ EndsWith(job.file.name, GSHEET)
    /\ ProcessGsheetWith(job.file, InfoOf[job.file])
    /\ UNCHANGED <<fixed, fs, gdrive_files, i, counts, exit_code, exports, probes, outcomes>>

IsGdocJob == EndsWith(job.file.name, GDOC)

\* a mutant of LeaveTmp: the temporary directory is left behind
LeaveTmpKeeps(f) == f

\* the end of the `with tempfile.TemporaryDirectory()` block, lines 398-406
LeaveTmp(f) == RemoveTmp(f)

\* the files after a document's export or conversion step ended the `with` block
AfterGdocStep(f) == IF IsGdocJob /\ ~job.kept THEN LeaveTmp(f) ELSE f

\* export_gdoc_to_docx / export_gsheet_to_csv, lines 256-262 and 277-283:
\* the request is built and the destination opened for writing
ExportOpen ==
    /\ pc = "export"
    /\ exports' = exports + 1
    /\ \E opened \in BOOLEAN :
          IF opened
          THEN /\ fs' = Put(fs, job.dest,
                            File(IF IsGdocJob THEN "docx" ELSE "csv", job.id, "empty", NoHeader))
               /\ pc' = "download"
               /\ job' = job
          ELSE Return("False") /\ fs' = AfterGdocStep(fs)
    /\ UNCHANGED <<fixed, gdrive_files, i, counts, exit_code, probes, outcomes>>

\* a mutant of Download: a failed download of a document goes on to the conversion
DownloadErrorGoesOn ==
    /\ pc = "download"
    /\ \E step \in {"chunk", "done", "error"} :
          CASE step = "chunk" ->
                  /\ fs[job.dest].data = "empty"
                  /\ fs' = [fs EXCEPT ![job.dest].data = "partial"]
                  /\ UNCHANGED <<pc, job>>
            [] step = "done" ->
                  IF IsGdocJob
                  THEN /\ fs' = [fs EXCEPT ![job.dest].data = "full"]
                       /\ pc' = "convert"
                       /\ job' = [job EXCEPT !.exported = TRUE]
                  ELSE /\ fs' = [fs EXCEPT ![job.dest].data = "full"]
                       /\ pc' = "returned"
                       /\ job' = [job EXCEPT !.exported = TRUE, !.result = "True"]
            [] step = "error" ->
                  IF IsGdocJob
                  THEN pc' = "convert" /\ UNCHANGED <<fs, job>>
                  ELSE Return("False") /\ fs' = fs
    /\ UNCHANGED <<fixed, gdrive_files, i, counts, exit_code, exports, probes, outcomes>>

\* lines 263-272 and 284-293: the chunks of the download
Download ==
    /\ pc = "download"
    /\ \E step \in {"chunk", "done", "error"} :
          CASE step = "chunk" ->
                  /\ fs[job.dest].data = "empty"
                  /\ fs' = [fs EXCEPT ![job.dest].data = "partial"]
                  /\ UNCHANGED <<pc, job>>
            [] step = "done" ->
                  IF IsGdocJob
                  THEN /\ fs' = [fs EXCEPT ![job.dest].data = "full"]
                       /\ pc' = "convert"
                       /\ job' = [job EXCEPT !.exported = TRUE]
                  ELSE /\ fs' = [fs EXCEPT ![job.dest].data = "full"]
                       /\ pc' = "returned"
                       /\ job' = [job EXCEPT !.exported = TRUE, !.result = "True"]
            [] step = "error" ->
                  Return("False") /\ fs' = AfterGdocStep(fs)
    /\ UNCHANGED <<fixed, gdrive_files, i, counts, exit_code, exports, probes, outcomes>>

\* convert_docx_to_markdown, lines 299-305: pandoc --version. Only
\* CalledProcessError and FileNotFoundError are caught there; any other error of
\* subprocess.run (pandoc is found but may not be executed) leaves
\* process_gdoc_file and is caught in main, line 574
ConvertProbe ==
    /\ pc = "convert"
    /\ probes' = probes + 1
    /\ \E step \in {"ok", "failed", "raised"} :
          CASE step = "ok" -> pc' = "pandoc_run" /\ UNCHANGED <<job, fs>>
            [] step = "failed" -> Return("False") /\ fs' = AfterGdocStep(fs)
            [] step = "raised" -> Return("raised") /\ fs' = AfterGdocStep(fs)
    /\ UNCHANGED <<fixed, gdrive_files, i, counts, exit_code, exports, outcomes>>

\* convert_docx_to_markdown, lines 307-318, and the end of the export-and-convert
\* block of process_gdoc_file, lines 392-408
ConvertRun ==
    /\ pc = "pandoc_run"
    /\ \E outcome \in {"ok", "failed", "raised"} :
          CASE outcome = "ok" ->
                  /\ fs' = Put(AfterGdocStep(fs), Loc(job.out),
                               File("md", fs[job.dest].src, "full", NoHeader))
                  /\ pc' = "annotate"
                  /\ job' = [job EXCEPT !.converted = TRUE]
            [] outcome = "failed" -> Return("False") /\ fs' = AfterGdocStep(fs)
            [] outcome = "raised" -> Return("raised") /\ fs' = AfterGdocStep(fs)
    /\ UNCHANGED <<fixed, gdrive_files, i, counts, exit_code, exports, probes, outcomes>>

\* a mutant of Frontmatter: the title is the sanitized name
FrontmatterSafeTitle(doc_name, doc_id, kept, docx) ==
    [state |-> "full", title |-> sanitize_filename(doc_name), source_doc_id |-> doc_id,
     docx_path |-> IF kept
                   THEN [present |-> TRUE, dir |-> <<"intermediates">>, name |-> docx.name]
                   ELSE [present |-> FALSE, dir |-> <<>>, name |-> <<>>]]

\* the frontmatter of add_frontmatter_to_markdown, lines 332-343
Frontmatter(doc_name, doc_id, kept, docx) ==
    [state |-> "full", title |-> doc_name, source_doc_id |-> doc_id,
     docx_path |-> IF kept
                   THEN [present |-> TRUE, dir |-> <<"intermediates">>, name |-> docx.name]
                   ELSE [present |-> FALSE, dir |-> <<>>, name |-> <<>>]]

\* a mutant of AnnotateRead: a failed annotation fails the item
AnnotateReadPropagates ==
    /\ pc = "annotate"
    /\ \E ok \in BOOLEAN :
          IF ok
          THEN pc' = "annotate_open" /\ job' = [job EXCEPT !.content = fs[Loc(job.out)]]
          ELSE pc' = "returned" /\ job' = [job EXCEPT !.annotated = "False", !.result = "False"]
    /\ UNCHANGED <<fixed, fs, gdrive_files, i, counts, exit_code, exports, probes, outcomes>>

\* add_frontmatter_to_markdown, lines 328-330: the converted text is read
AnnotateRead ==
    /\ pc = "annotate"
    /\ \E ok \in BOOLEAN :
          IF ok
          THEN pc' = "annotate_open" /\ job' = [job EXCEPT !.content = fs[Loc(job.out)]]
          ELSE pc' = "returned" /\ job' = [job EXCEPT !.annotated = "False", !.result = "True"]
    /\ UNCHANGED <<fixed, fs, gdrive_files, i, counts, exit_code, exports, probes, outcomes>>

\* line 345: open(md_path, 'w') empties the file
AnnotateOpen ==
    /\ pc = "annotate_open"
    /\ \E ok \in BOOLEAN :
          IF ok
          THEN /\ fs' = [fs EXCEPT ![Loc(job.out)].data = "empty"]
               /\ pc' = "annotate_write"
               /\ job' = job
          ELSE /\ fs' = fs
               /\ pc' = "returned"
               /\ job' = [job EXCEPT !.annotated = "False", !.result = "True"]
    /\ UNCHANGED <<fixed, gdrive_files, i, counts, exit_code, exports, probes, outcomes>>

\* lines 346-351 and 418-422: the frontmatter and the text are written in one
\* write, which may fail before anything is written ("nothing"), within the
\* frontmatter ("partial"), right after it ("header") or within the text ("text")
AnnotateWrite ==
    /\ pc = "annotate_write"
    /\ \E outcome \in {"ok", "partial", "nothing", "header", "text"} :
          CASE outcome = "ok" ->
                  /\ fs' = [fs EXCEPT ![Loc(job.out)] =
                               [job.content EXCEPT
                                  !.hdr = Frontmatter(job.name, job.id, job.kept, job.dest)]]
                  /\ job' = [job EXCEPT !.annotated = "True", !.result = "True"]
            [] outcome = "partial" ->
                  /\ fs' = [fs EXCEPT ![Loc(job.out)].hdr.state = "partial"]
                  /\ job' = [job EXCEPT !.annotated = "False", !.result = "True"]
            [] outcome = "nothing" ->
                  /\ fs' = fs
                  /\ job' = [job EXCEPT !.annotated = "False", !.result = "True"]
            [] outcome \in {"header", "text"} ->
                  /\ fs' = [fs EXCEPT ![Loc(job.out)] =
                               [job.content EXCEPT
                                  !.hdr = Frontmatter(job.name, job.id, job.kept, job.dest),
                                  !.data = IF outcome = "header" THEN "empty"
                                           ELSE "partial"]]
                  /\ job' = [job EXCEPT !.annotated = "False", !.result = "True"]
    /\ pc' = "returned"
    /\ UNCHANGED <<fixed, gdrive_files, i, counts, exit_code, exports, probes, outcomes>>

\* a mutant of Count: an exception raised by an item is not caught
CountAbortsOnRaise ==
    /\ pc = "returned"
    /\ IF job.result = "raised"
       THEN Exit("1") /\ UNCHANGED <<counts, outcomes, i>>
       ELSE NextItem(IF job.result = "True" THEN "succeeded" ELSE "failed")
            /\ exit_code' = exit_code
    /\ job' = JobIdle
    /\ UNCHANGED <<fixed, fs, gdrive_files, exports, probes>>

\* lines 562-576: the outcome is counted
Count ==
    /\ pc = "returned"
    /\ NextItem(IF job.result = "True" THEN "succeeded" ELSE "failed")
    /\ job' = JobIdle
    /\ UNCHANGED <<fixed, fs, gdrive_files, exit_code, exports, probes>>

\* lines 578-599: the summary; the process ends with status 0
Summary ==
    /\ pc = "loop"
    /\ i > Len(gdrive_files)
    /\ Exit("0")
    /\ UNCHANGED <<fixed, fs, gdrive_files, i, counts, job, exports, probes, outcomes>>

Next ==
    \/ CheckSourceDir
    \/ CheckPandoc
    \/ Authenticate
    \/ FindFiles
    \/ MainItem
    \/ ProcessGdoc
    \/ ProcessGsheet
    \/ ExportOpen
    \/ Download
    \/ ConvertProbe
    \/ ConvertRun
    \/ AnnotateRead
    \/ AnnotateOpen
    \/ AnnotateWrite
    \/ Count
    \/ Summary

Spec == Init /\ [][Next]_vars

\* the process before it is started: nothing is chosen yet
Boot == InitIdle /\ pc = "boot" /\ san = SanIdle /\ rsv = RsvIdle

\* the program is started on some tree with some command line
Start ==
    /\ pc = "boot"
    /\ \E inp \in RunInputs : args' = inp.args /\ tree' = inp.tree /\ fs' = inp.fs
    /\ fs0' = fs'
    /\ pc' = "start"
    /\ UNCHANGED <<links, run, gdrive_files, i, counts, job, exit_code, exports, probes,
                   outcomes, prev, san, rsv>>

NextFair == Start \/ Next

\* every call returns: the interpreter runs the next statement
FairSpec == Boot /\ [][NextFair]_vars /\ WF_vars(NextFair)

(***************************************************************************)
(* The program run a second time over the same tree with the same command  *)
(* line, --skip-existing set.                                              *)
(***************************************************************************)
InitTwice == Init /\ args.skip_existing

\* the process has ended; the same command is started again
Rerun ==
    /\ pc = "exited"
    /\ run = "first"
    /\ run' = "second"
    /\ prev' = [outcomes |-> outcomes, files |-> gdrive_files, fs |-> fs]
    /\ fs0' = fs
    /\ pc' = "start"
    /\ gdrive_files' = <<>>
    /\ i' = 1
    /\ counts' = ZeroCounts
    /\ job' = JobIdle
    /\ exit_code' = "none"
    /\ exports' = 0
    /\ probes' = 0
    /\ outcomes' = <<>>
    /\ UNCHANGED <<args, tree, links, fs, san, rsv>>

NextTwice == Next \/ Rerun

SpecTwice == InitTwice /\ [][NextTwice]_vars

(***************************************************************************)
(* A tree in which the intermediates directory, or the would-be output     *)
(* file a.md, is a symbolic link that leads outside source_dir.            *)
(***************************************************************************)
LinkedIntermediates == Path(<<"intermediates">>, <<>>)

LinkedOutput == Path(<<>>, <<"a">> \o MD)

\* the directory the intermediates link points to
OutsideDir ==
    [l \in {[area |-> "outside", dir |-> <<"intermediates">>, name |-> <<>>]} |-> Directory]

InitLinks ==
    /\ args \in {a \in ArgSets : ~a.gdoc_only /\ ~a.gsheet_only /\ a.limit = NoLimit}
    /\ tree \in Trees
    /\ links \in (SUBSET {LinkedIntermediates, LinkedOutput}) \ {{}}
    /\ fs = Merge(BaseDirs, OutsideDir)
    /\ fs0 = fs
    /\ InitRun

SpecLinks == InitLinks /\ [][Next]_vars

(***************************************************************************)
(* get_gdrive_info on its own: every content of at most MaxLines lines     *)
(* drawn from Lines, in a file of each name of KindFiles.                  *)
(***************************************************************************)
\* the most lines a pointer file holds
MaxLines == 2

RECURSIVE SeqsUpTo(_, _)
SeqsUpTo(S, n) ==
    IF n = 0 THEN {<<>>}
    ELSE SeqsUpTo(S, n - 1) \cup
         {Append(q, x) : q \in {r \in SeqsUpTo(S, n - 1) : Len(r) = n - 1}, x \in S}

Contents == SeqsUpTo(Lines, MaxLines) \ {<<>>}

InitResolve ==
    /\ InitIdle
    /\ pc = "idle"
    /\ san = SanIdle
    /\ \E name \in {f.name : f \in KindFiles}, content \in Contents :
          rsv = [RsvIdle EXCEPT !.stage = "read", !.name = name, !.content = content]

\* get_gdrive_info, lines 192-202: the content is read and cleaned
ResolveClean ==
    /\ rsv.stage = "read"
    /\ rsv' = [rsv EXCEPT !.stage = "cleaned", !.clean = clean_file_content(rsv.content)]
    /\ UNCHANGED <<idle, san>>

\* get_gdrive_info, lines 204-236: the info is extracted and returned
ResolveExtract ==
    /\ rsv.stage = "cleaned"
    /\ rsv' = [rsv EXCEPT !.stage = "done", !.info = get_gdrive_info(rsv.name, rsv.content)]
    /\ UNCHANGED <<idle, san>>

NextResolve == ResolveClean \/ ResolveExtract

SpecResolve == InitResolve /\ [][NextResolve]_vars

(***************************************************************************)
(* sanitize_filename on its own: every name of at most MaxNameLen          *)
(* characters of NameChars, and a name of LongLen letters, with either     *)
(* output extension.                                                       *)
(***************************************************************************)
\* the most characters of an enumerated name
MaxNameLen == 2

\* the length of the long name
LongLen == 256

NameChars == Reserved \cup NonPrintable \cup {"a", "1", "e'", ".", "_", "-", " "}

SanNames == SeqsUpTo(NameChars, MaxNameLen) \cup {[k \in 1..LongLen |-> "a"]}

InitSanitize ==
    /\ InitIdle
    /\ pc = "idle"
    /\ rsv = RsvIdle
    /\ \E name \in SanNames, ext \in {MD, CSV} :
          san = [SanIdle EXCEPT !.stage = "name", !.name = name, !.ext = ext]

\* main, lines 548-550: the output file name from the display name
SanitizeName ==
    /\ san.stage = "name"
    /\ san' = [san EXCEPT !.stage = "done", !.out = sanitize_filename(san.name) \o san.ext]
    /\ UNCHANGED <<idle, rsv>>

NextSanitize == SanitizeName

SpecSanitize == InitSanitize /\ [][NextSanitize]_vars

(***************************************************************************)
(* The program run on a tree that holds one pointer file of KindFiles.     *)
(***************************************************************************)
InitKind ==
    /\ args \in {a \in ArgSets : /\ ~a.skip_existing /\ ~a.gdoc_only /\ ~a.gsheet_only
                                 /\ a.limit = NoLimit}
    /\ tree \in {<<f>> : f \in KindFiles}
    /\ links = {}
    /\ fs = BaseDirs
    /\ fs0 = fs
    /\ InitRun

SpecKind == InitKind /\ [][Next]_vars

(***************************************************************************)
(* The set-up and the discovery of main on trees that also hold files      *)
(* that are no pointer files.                                              *)
(***************************************************************************)
\* the candidate files: a.gdoc, a.md, a.gdoc.b, sub/gdoc, sub/b.gsheet
FindWalk ==
    << Walk[1],
       PointerFile(<<>>, <<"a">> \o MD, <<>>),
       PointerFile(<<>>, NameAGdoc \o <<".", "b">>, <<LineDocId>>),
       PointerFile(<<"sub">>, <<"g", "d", "o", "c">>, <<LineDocId>>),
       Walk[5] >>

InitFind ==
    /\ args \in {a \in ArgSets : /\ ~a.dry_run /\ ~a.skip_existing /\ ~a.keep_intermediates
                                 /\ a.limit = NoLimit}
    /\ tree \in UNION {WalkOrders(S) : S \in SUBSET {FindWalk[k] : k \in 1..Len(FindWalk)}}
    /\ links = {}
    /\ fs = BaseDirs
    /\ fs0 = fs
    /\ InitRun

NextFind == CheckSourceDir \/ CheckPandoc \/ Authenticate \/ FindFiles

SpecFind == InitFind /\ [][NextFind]_vars

(***************************************************************************)
(* The properties.                                                         *)
(***************************************************************************)
Absent == File("absent", PyNone, "empty", NoHeader)

FileAt(f, loc) == IF loc \in DOMAIN f THEN f[loc] ELSE Absent

InPipeline ==
    pc \in {"process", "export", "download", "convert", "pandoc_run",
            "annotate", "annotate_open", "annotate_write", "returned"}

\* the item is inside `with tempfile.TemporaryDirectory()`, lines 398-406: only a
\* document processed without --keep-intermediates has one
InTmpBlock ==
    /\ IsGdocJob /\ ~job.kept
    /\ pc \in {"export", "download", "convert", "pandoc_run"}

Sum(c) == c.success_count + c.skip_count + c.error_count

\* C1: in a dry run, whatever the other flags and the pointer files, the files and
\* directories are those the run started with, and the export is never invoked.
C1_DryRunWritesNothing == args.dry_run => (fs = fs0 /\ exports = 0)

C1_Witness ==
    /\ args.dry_run /\ args.keep_intermediates /\ args.skip_existing
    /\ pc = "exited" /\ exit_code = "0"
    /\ counts.gdocs_processed = 1 /\ counts.gsheets_processed = 1

\* C2, as stated: every item that succeeded in the first run is counted as skipped
\* in the second run with --skip-existing, and the pipeline is not entered for it.
C2_Original ==
    run = "second" =>
        /\ \A k \in DOMAIN outcomes \cap DOMAIN prev.outcomes :
              prev.outcomes[k] = "succeeded" => outcomes[k] = "skipped"
        /\ (InPipeline /\ i \in DOMAIN prev.outcomes) => prev.outcomes[i] # "succeeded"

\* C2, amended: in runs that are not dry runs, every item that succeeded in the first
\* run is counted as skipped in the second run with --skip-existing, and the pipeline
\* (export, convert, annotate: every write) is not entered for it.
C2_IdempotentSkip ==
    (run = "second" /\ ~args.dry_run) =>
        /\ \A k \in DOMAIN outcomes \cap DOMAIN prev.outcomes :
              prev.outcomes[k] = "succeeded" => outcomes[k] = "skipped"
        /\ (InPipeline /\ i \in DOMAIN prev.outcomes) => prev.outcomes[i] # "succeeded"

C2_Witness ==
    /\ run = "second" /\ ~args.dry_run /\ pc = "exited" /\ exit_code = "0"
    /\ prev.outcomes = <<"succeeded", "succeeded">>
    /\ outcomes = <<"skipped", "skipped">>
    /\ fs = prev.fs

\* C3: once the loop has started, whatever the items' outcomes (a failure returned or
\* an exception raised), every item is processed in turn and the run reaches the
\* summary: it ends with status 0 and one outcome per item.
C3_BatchCompletes ==
    [](pc = "loop" =>
          <>(pc = "exited" /\ exit_code = "0" /\ Len(outcomes) = Len(gdrive_files)))

C3_Witness == pc = "returned" /\ job.result = "raised" /\ i < Len(gdrive_files)

\* C4: the three counters sum to the number of items processed so far, the per-kind
\* counts sum to success_count, the sum is the number of files found (after the cap)
\* when the summary has been printed, and each processed item adds one to exactly one
\* of the three counters.
C4_Accounting ==
    /\ [](/\ Sum(counts) = i - 1
          /\ Sum(counts) = Len(outcomes)
          /\ counts.gdocs_processed + counts.gsheets_processed = counts.success_count
          /\ (pc = "exited" /\ exit_code = "0") =>
                Sum(counts) = Len(ApplyLimit(find_gdrive_files(tree, args.gdoc_only,
                                                               args.gsheet_only), args.limit)))
    /\ [][/\ i' = i => counts' = counts
          /\ i' # i =>
                /\ i' = i + 1
                /\ Sum(counts') = Sum(counts) + 1
                /\ counts'.success_count \in {counts.success_count, counts.success_count + 1}
                /\ counts'.skip_count \in {counts.skip_count, counts.skip_count + 1}
                /\ counts'.error_count \in {counts.error_count, counts.error_count + 1}]_vars

C4_Witness ==
    /\ pc = "exited" /\ exit_code = "0"
    /\ counts.success_count = 1 /\ counts.skip_count = 1 /\ counts.error_count = 0

\* C5, as stated: the final output file of an item (the .md or .csv beside the pointer
\* file) is neither created nor changed before the export of that item has completed.
C5_NoOutputBeforeExport ==
    [][(InPipeline /\ job.out.name # <<>>
        /\ FileAt(fs', Loc(job.out)) # FileAt(fs, Loc(job.out))) => job.exported]_vars

\* C6: without --keep-intermediates, no exported .docx is ever under source_dir (or
\* behind a link of it), and once the export-and-convert block of an item is left, on
\* any path, the temporary directory and the .docx in it are gone.
C6_IntermediateCleanup ==
    ~args.keep_intermediates =>
        /\ \A l \in DOMAIN fs : fs[l].kind = "docx" => l.area = "tmp"
        /\ ~InTmpBlock => \A l \in DOMAIN fs : l.area # "tmp"

C6_Witness ==
    /\ ~args.keep_intermediates /\ pc = "returned"
    /\ job.exported /\ job.result = "raised"

\* C7: a document whose export and conversion succeeded is returned as a success and
\* counted as succeeded, never as failed, whether or not the annotation succeeded.
C7_AnnotationBestEffort ==
    [][(pc = "returned" /\ job.converted /\ pc' = "loop") =>
          /\ job.result = "True"
          /\ counts'.success_count = counts.success_count + 1
          /\ counts'.error_count = counts.error_count
          /\ outcomes' = Append(outcomes, "succeeded")]_vars

C7_Witness ==
    /\ pc = "loop" /\ outcomes # <<>> /\ outcomes[Len(outcomes)] = "succeeded"
    /\ \E l \in DOMAIN fs : fs[l].kind = "md" /\ fs[l].hdr.state # "full"

\* C8, as stated: every file the pipeline writes or changes is at a location equal to
\* or inside source_dir.
C8_WritesConfined ==
    \A l \in DOMAIN fs : l.area = "outside" => FileAt(fs0, l) = fs[l]

\* C9, as stated: the sanitized output file name holds no reserved character, only
\* printable characters, and is at most 255 bytes long with its extension.
C9_SanitizedNameBound ==
    san.stage = "done" =>
        /\ \A k \in 1..Len(san.out) : san.out[k] \notin Reserved /\ IsPrintable(san.out[k])
        /\ ByteLenOf(san.out) <= 255

\* the identifier a parsed document gives: the primary key, else the legacy key
IdOfParsed(parsed) ==
    IF parsed.ok /\ parsed.v.t = "dict" THEN DocIdOf(parsed.v) ELSE PyNone

IdOfMatch(m) == IF m.ok THEN PyStr(m.v) ELSE PyNone

FirstTruthy(a, b, c, d) ==
    IF Truthy(a) THEN a ELSE IF Truthy(b) THEN b ELSE IF Truthy(c) THEN c
    ELSE IF Truthy(d) THEN d ELSE PyNone

\* the chain of the claim: the content parsed, the cleaned content parsed, the
\* key/value search, the id= search
ClaimedResolve(content) ==
    FirstTruthy(IdOfParsed(json_loads(Join(content))),
                IdOfParsed(json_loads(Join(clean_file_content(content)))),
                IdOfMatch(SearchKeyValue(Join(content), "doc_id")),
                IdOfMatch(SearchIdParam(Join(content))))

ResolvedId(info) == IF info.ok /\ Truthy(info.id) THEN info.id ELSE PyNone

\* C10, as stated: the identifier resolved is that of the first of the four strategies
\* that yields a non-empty one, and resolution fails only when none yields one.
C10_FallbackChain ==
    rsv.stage = "done" => ResolvedId(rsv.info) = ClaimedResolve(rsv.content)

\* C11, as stated: for every pointer file the batch processes, the kind
\* get_gdrive_info returns is document for a .gdoc file and spreadsheet for a .gsheet
\* file, whatever the content says, the display name is the file name without that
\* extension, and the function main hands the file to accepts the kind.
C11_Original ==
    /\ [](InPipeline =>
             LET info == InfoOf[job.file]
                 name == job.file.name
             IN  /\ EndsWith(name, GDOC) =>
                       info.type = "document" /\ info.name \o GDOC = name
                 /\ EndsWith(name, GSHEET) =>
                       info.type = "spreadsheet" /\ info.name \o GSHEET = name)
    /\ [][(pc = "process" /\ Truthy(InfoOf[job.file].id)) =>
             /\ job'.result # "False"
             /\ InfoOf[job.file].type = "document" => EndsWith(job'.out.name, MD)
             /\ InfoOf[job.file].type = "spreadsheet" => EndsWith(job'.out.name, CSV)]_vars

\* C11, amended: the kind follows the extension as stated and the function main
\* hands the file to accepts it; the display name is the file name without the
\* extension, unless nothing but dots comes before the extension (".gdoc",
\* "..gdoc", ".gsheet"): such a name is kept whole.
C11_KindFromExtension ==
    /\ [](InPipeline =>
             LET info == InfoOf[job.file]
                 name == job.file.name
                 ext == IF EndsWith(name, GDOC) THEN GDOC ELSE GSHEET
                 stem == SubSeq(name, 1, Len(name) - Len(ext))
             IN  /\ EndsWith(name, ext)
                 /\ info.type = IF ext = GDOC THEN "document" ELSE "spreadsheet"
                 /\ info.name = IF \A k \in DOMAIN stem : stem[k] = "." THEN name
                                 ELSE stem)
    /\ [][(pc = "process" /\ Truthy(InfoOf[job.file].id)) =>
             /\ job'.result # "False"
             /\ InfoOf[job.file].type = "document" => EndsWith(job'.out.name, MD)
             /\ InfoOf[job.file].type = "spreadsheet" => EndsWith(job'.out.name, CSV)]_vars

\* a .gsheet file whose content names a document was exported as a spreadsheet
C11_Witness ==
    /\ pc = "returned" /\ job.result = "True" /\ job.exported
    /\ job.file.name = NameAGsheet /\ job.file.content = <<LineDocumentUrl>>
    /\ InfoOf[job.file].type = "spreadsheet"
    /\ job.name = <<"a">> /\ job.out.name = <<"a">> \o CSV

\* C12, as stated: an item whose pointer file yields no non-empty identifier is counted
\* as failed, never as succeeded or skipped, under every combination of flags and
\* whatever is at its would-be output path, and no export is started and no output
\* written for it.
C12_MalformedAlwaysFails ==
    /\ \A k \in DOMAIN outcomes :
          ~Truthy(InfoOf[gdrive_files[k]].id) => outcomes[k] = "failed"
    /\ pc \in {"export", "download", "convert", "pandoc_run", "annotate",
               "annotate_open", "annotate_write"} => Truthy(InfoOf[job.file].id)

\* C13, as stated: when --limit N is given, the items processed are exactly the first
\* min(N, number of files found) files of the discovery sequence, in that order, and
\* no other file is processed or counted.
C13_ItemCap ==
    LET found == find_gdrive_files(tree, args.gdoc_only, args.gsheet_only)
        n == IF args.limit < Len(found) THEN args.limit ELSE Len(found)
    IN  args.limit # NoLimit =>
           /\ InPipeline => (i <= n /\ job.file = found[i])
           /\ Len(outcomes) <= n
           /\ (pc = "exited" /\ exit_code = "0") => Len(outcomes) = n

\* C14 as stated: a run that ends with a non-zero status has processed no item and
\* has written no file under source_dir.
C14_Original ==
    exit_code = "1" => (fs = fs0 /\ exports = 0 /\ outcomes = <<>>)

\* C14: the run ends with a non-zero status only on a set-up failure (the source
\* directory is missing, the pandoc probe fails unless --gsheet-only, authentication
\* fails unless --dry-run), and then no item has been processed and no file written
\* other than token.pickle, which authenticate creates in the working directory
\* (and leaves empty or partly written when saving the credentials fails) before
\* the set-up fails;
\* every other run, with no file found or with any number of failed items, ends with
\* status 0.
C14_ExitStatus ==
    /\ [](/\ pc = "exited" => exit_code \in {"0", "1"}
          /\ pc # "exited" => exit_code = "none"
          /\ exit_code = "1" =>
                /\ \A l \in DOMAIN fs \cup DOMAIN fs0 :
                      \/ FileAt(fs, l) = FileAt(fs0, l)
                      \/ /\ \E d \in WorkDirs : l = Loc(Path(d, TokenPickle))
                         /\ fs[l] \in {Token(d) : d \in {"empty", "partial", "full"}}
                /\ exports = 0 /\ outcomes = <<>> /\ gdrive_files = <<>>
                /\ job = JobIdle)
    /\ [][exit_code' = "1" =>
             \/ pc = "start"
             \/ pc = "pandoc" /\ ~args.gsheet_only
             \/ pc = "auth" /\ ~args.dry_run]_vars
    /\ [][(pc' = "exited" /\ pc \notin {"start", "pandoc", "auth"}) => exit_code' = "0"]_vars
    /\ [][fs' # fs => (pc = "auth" \/ InPipeline)]_vars

\* authentication created token.pickle in source_dir/sub and saved only part of
\* the credentials in it
C14_Witness ==
    /\ pc = "exited" /\ exit_code = "1"
    /\ FileAt(fs, Loc(Path(<<"sub">>, TokenPickle))) = Token("partial")
    /\ ~Exists(fs0, Loc(Path(<<"sub">>, TokenPickle)))

\* C15: when a document has been annotated successfully, its output file is the
\* complete metadata block followed by the whole converted text of that document; the
\* block's source_doc_id is the identifier read from the pointer file, its title the
\* display name, and it holds docx_path exactly when the .docx was kept (and then the
\* path of the kept .docx, relative to the output's directory).
C15_AnnotatedContent ==
    (pc = "returned" /\ job.annotated = "True") =>
        LET f == FileAt(fs, Loc(job.out))
            info == InfoOf[job.file]
        IN  /\ f.kind = "md" /\ f.data = "full" /\ f.src = info.id
            /\ f.hdr.state = "full"
            /\ f.hdr.title = info.name
            /\ f.hdr.source_doc_id = info.id
            /\ f.hdr.docx_path.present = args.keep_intermediates
            /\ f.hdr.docx_path.present =>
                  FileAt(fs, Loc(Path(job.file.dir \o f.hdr.docx_path.dir,
                                      f.hdr.docx_path.name))).kind = "docx"

C15_Witness ==
    /\ pc = "returned" /\ job.annotated = "True" /\ args.keep_intermediates
    /\ job.file.name = NameAQGdoc
    /\ fs[Loc(job.out)].hdr.title = <<"a", "?">>

\* C16, as stated: from the moment the converter has written the output, during the
\* annotation and after it (failed or not), the output file holds the whole converted
\* text, either without a header or after the complete header: it is never empty,
\* truncated or holding part of a header.
C16_AnnotationKeepsContent ==
    (pc \in {"annotate", "annotate_open", "annotate_write", "returned"} /\ job.converted) =>
        LET f == FileAt(fs, Loc(job.out))
        IN  f.kind = "md" /\ f.data = "full" /\ f.hdr.state \in {"none", "full"}

\* C17, as stated: a file left by a failed export is never taken for a completed
\* output: a second run with --skip-existing does not count as skipped an item whose
\* would-be output is the empty or partial file a failed export of the first run left,
\* and outside a dry run no item is returned as a success without its export having
\* completed.
C17_FailedExportNotValid ==
    /\ run = "second" =>
          \A k \in DOMAIN outcomes \cap DOMAIN prev.outcomes :
              LET left == FileAt(prev.fs, Loc(main_output_path(gdrive_files[k],
                                                               InfoOf[gdrive_files[k]])))
              IN  (prev.outcomes[k] = "failed" /\ left.kind = "csv" /\ left.data # "full")
                      => outcomes[k] # "skipped"
    /\ (pc = "returned" /\ job.result = "True" /\ ~args.dry_run) => job.exported

\* C18: within an item, pandoc is invoked only after the export of that item has
\* completed, and the annotation only after the conversion has; an item whose export or
\* conversion failed runs no later step and is counted as failed; a spreadsheet goes
\* from its completed export straight to its return, with neither pandoc nor the
\* annotation invoked.
C18_StepOrder ==
    /\ [](/\ pc \in {"convert", "pandoc_run"} => (IsGdocJob /\ job.exported)
          /\ pc \in {"annotate", "annotate_open", "annotate_write"} =>
                (IsGdocJob /\ job.exported /\ job.converted)
          /\ (pc = "returned" /\ ~args.dry_run /\ job.result = "True") =>
                (job.exported /\ (IsGdocJob => job.converted)))
    /\ [][/\ (pc \in {"export", "download"} /\ pc' # pc /\ ~job'.exported) =>
                (pc' \in {"download", "returned"} /\ job'.result # "True")
          /\ (pc \in {"convert", "pandoc_run"} /\ pc' # pc /\ ~job'.converted) =>
                (pc' \in {"pandoc_run", "returned"} /\ job'.result # "True")
          /\ (pc = "download" /\ ~IsGdocJob /\ job'.exported) =>
                (pc' = "returned" /\ job'.result = "True")
          /\ (pc = "returned" /\ pc' = "loop" /\ ~args.dry_run
              /\ (~job.exported \/ (IsGdocJob /\ ~job.converted))) =>
                outcomes' = Append(outcomes, "failed")]_vars

C18_Witness ==
    /\ pc = "returned" /\ IsGdocJob /\ job.exported /\ ~job.converted
    /\ job.result = "False" /\ probes = 2

\* C19, as stated: in a run, however many documents are converted, `pandoc --version`
\* is run at most once.
C19_ProbeOnce == probes <= 1

\* C20: the files find_gdrive_files yields are exactly the files of the tree whose name
\* ends in .gdoc or .gsheet and, when --gdoc-only or --gsheet-only is set, whose kind
\* is a requested one; with neither set both kinds are yielded; each such file is
\* yielded once.
C20_DiscoveryFilter ==
    pc \in {"loop", "exited"} /\ exit_code # "1" =>
        /\ \A k \in 1..Len(tree) :
              (\E j \in 1..Len(gdrive_files) : gdrive_files[j] = tree[k]) <=>
                 /\ EndsWith(tree[k].name, GDOC) \/ EndsWith(tree[k].name, GSHEET)
                 /\ (args.gdoc_only \/ args.gsheet_only) =>
                       \/ args.gdoc_only /\ EndsWith(tree[k].name, GDOC)
                       \/ args.gsheet_only /\ EndsWith(tree[k].name, GSHEET)
        /\ \A j \in 1..Len(gdrive_files) :
              /\ \E k \in 1..Len(tree) : tree[k] = gdrive_files[j]
              /\ \A h \in 1..Len(gdrive_files) : gdrive_files[h] = gdrive_files[j] => h = j

C20_Witness ==
    /\ pc = "loop" /\ args.gsheet_only /\ ~args.gdoc_only
    /\ Len(tree) = 5 /\ gdrive_files = <<Walk[5]>>

\* C21: for every item, the path main tests under --skip-existing is the path the
\* item's pipeline writes its final output to (the .md pandoc writes and the annotation
\* rewrites, the .csv the export opens), so that an item whose info was read is skipped
\* exactly when --skip-existing is set and that file is already there.
C21_SkipPathIsWritePath ==
    /\ [](/\ (InPipeline /\ job.out.name # <<>>) =>
                job.out = main_output_path(job.file, InfoOf[job.file])
          /\ (pc = "download" /\ ~IsGdocJob) =>
                job.dest = Loc(main_output_path(job.file, InfoOf[job.file])))
    /\ [][(pc = "loop" /\ (i' = i + 1 \/ pc' = "process")) =>
             LET file == gdrive_files[i]
                 written == IF EndsWith(file.name, GDOC)
                            THEN md_filename(file, InfoOf[file])
                            ELSE csv_filename(file, InfoOf[file])
             IN  InfoOf[file].ok =>
                    ((outcomes' = Append(outcomes, "skipped")) <=>
                        (args.skip_existing /\ Exists(fs, Loc(written))))]_vars

C21_Witness ==
    /\ pc = "loop" /\ outcomes = <<"skipped">>
    /\ gdrive_files[1].name = NameAQGdoc
    /\ Exists(fs, Loc(md_filename(gdrive_files[1], InfoOf[gdrive_files[1]])))

\* C22, as stated: at the end of a run that is not a dry run, every item counted as
\* succeeded has its output file, and that file holds what was exported for that item
\* and not for another item of the run.
C22_OwnOutputPerItem ==
    (pc = "exited" /\ exit_code = "0" /\ ~args.dry_run) =>
        \A k \in DOMAIN outcomes :
            outcomes[k] = "succeeded" =>
                LET info == InfoOf[gdrive_files[k]]
                    f == FileAt(fs, Loc(main_output_path(gdrive_files[k], info)))
                IN  f.kind \in {"md", "csv"} /\ f.src = info.id

====
